---- MODULE Spec2Model ----
(***************************************************************************)
(* A model of giu's style stack controller (Style.go), alignment engine    *)
(* (Alignment.go) and autocomplete text input (TextWidgets.go).            *)
(*                                                                         *)
(* The drawing backend (imgui) is modelled by its stacks, its cursor and   *)
(* the list of calls it has observed during the last top-level build.      *)
(* float32 quantities are drawn from integer-valued floats, for which the  *)
(* float arithmetic of the source is exact up to halves.                   *)
(***************************************************************************)
EXTENDS Integers, Sequences, FiniteSets, TLC

VARIABLES gui, last, pre, builds, states, values, inframe, crashed, hist

vars == <<gui, last, pre, builds, states, values, inframe, crashed, hist>>

guiVars == <<gui, last, pre, builds>>

inputVars == <<states, values, inframe, crashed, hist>>

(***************************************************************************)
(* Bounds of the model.                                                    *)
(***************************************************************************)
\* deepest stack the application itself pushes around a build
MaxAmbient == 2

\* farthest line of the window the application starts a build on
MaxLine == 1

\* deepest entry of the color stack the application gives a slot other than Text
MaxOther == 1

(***************************************************************************)
(* Generic helpers.                                                        *)
(***************************************************************************)
Min(a, b) == IF a < b THEN a ELSE b

Max(a, b) == IF a > b THEN a ELSE b

Pt(x, y) == [X |-> x, Y |-> y]

\* Go's int(f) for a float f = n/2: truncation toward zero.
IntOfHalves(n) == IF n >= 0 THEN n \div 2 ELSE -((-n) \div 2)

Entry(op, id, x, y, lvl) == [op |-> op, id |-> id, x |-> x, y |-> y, lvl |-> lvl]

\* A call is observed only if it is made: none is, once the build has panicked.
Log(s, op, id, x, y) ==
    IF s.panicked THEN s
    ELSE [s EXCEPT !.calls = Append(@, Entry(op, id, x, y, s.lvl))]

Panic(s, msg) ==
    IF s.panicked THEN s
    ELSE [s EXCEPT !.calls = Append(@, Entry("panic", msg, 0, 0, s.lvl)), !.panicked = TRUE]

(***************************************************************************)
(* Window geometry and default style of the backend.                       *)
(***************************************************************************)
Env == [contentMaxX |-> 21, paddingW |-> 2, spacingW |-> 1, lineH |-> 3]

NoFont == "nofont"

\* fonts registered in extraFontMap
extraFontMap == {"f1"}

Fonts == {NoFont, "f1", "unregistered"}

AlignLeft == 0

AlignCenter == 1

AlignRight == 2

(***************************************************************************)
(* Style variables: the fixed classification table.                        *)
(***************************************************************************)
Vec2Slots == {"WindowPadding", "WindowMinSize", "WindowTitleAlign", "FramePadding",
              "ItemSpacing", "ItemInnerSpacing", "ButtonTextAlign", "SelectableTextAlign"}

IsVec2(k) == k \in Vec2Slots

(***************************************************************************)
(* The backend's primitives. Every primitive is skipped once the build has *)
(* panicked: a Go panic unwinds the whole build, no later statement runs.  *)
(***************************************************************************)
ImguiPushStyleColor(s, id, col) ==
    IF s.panicked THEN s
    ELSE [Log(s, "PushStyleColor", id, col, 0) EXCEPT !.colors = Append(@, [id |-> id, col |-> col])]

ImguiPopStyleColorV(s, n) ==
    IF s.panicked THEN s
    ELSE IF n > Len(s.colors) THEN Panic(Log(s, "PopStyleColorV", "", n, 0), "imgui: PopStyleColor() too many times")
    ELSE [Log(s, "PopStyleColorV", "", n, 0) EXCEPT !.colors = SubSeq(@, 1, Len(@) - n)]

ImguiPushStyleVarFloat(s, id, v) ==
    IF s.panicked THEN s
    ELSE [Log(s, "PushStyleVarFloat", id, v, 0)
            EXCEPT !.vars = Append(@, [id |-> id, kind |-> "float", x |-> v, y |-> 0])]

ImguiPushStyleVarVec2(s, id, x, y) ==
    IF s.panicked THEN s
    ELSE [Log(s, "PushStyleVarVec2", id, x, y)
            EXCEPT !.vars = Append(@, [id |-> id, kind |-> "vec2", x |-> x, y |-> y])]

ImguiPopStyleVarV(s, n) ==
    IF s.panicked THEN s
    ELSE IF n > Len(s.vars) THEN Panic(Log(s, "PopStyleVarV", "", n, 0), "imgui: PopStyleVar() too many times")
    ELSE [Log(s, "PopStyleVarV", "", n, 0) EXCEPT !.vars = SubSeq(@, 1, Len(@) - n)]

ImguiPushFont(s, f) ==
    IF s.panicked THEN s
    ELSE [Log(s, "PushFont", f, 0, 0) EXCEPT !.fonts = Append(@, f)]

ImguiPopFont(s) ==
    IF s.panicked THEN s
    ELSE IF Len(s.fonts) = 0 THEN Panic(Log(s, "PopFont", "", 0, 0), "imgui: PopFont() too many times")
    ELSE [Log(s, "PopFont", "", 0, 0) EXCEPT !.fonts = SubSeq(@, 1, Len(@) - 1)]

ImguiBeginDisabled(s, d) ==
    IF s.panicked THEN s
    ELSE [Log(s, "BeginDisabled", "", IF d THEN 1 ELSE 0, 0) EXCEPT !.disabled = Append(@, d)]

ImguiEndDisabled(s) ==
    IF s.panicked THEN s
    ELSE IF Len(s.disabled) = 0 THEN Panic(Log(s, "EndDisabled", "", 0, 0), "imgui: EndDisabled() too many times")
    ELSE [Log(s, "EndDisabled", "", 0, 0) EXCEPT !.disabled = SubSeq(@, 1, Len(@) - 1)]

\* The value of a style variable: its topmost override, or the default.
RECURSIVE TopVar(_, _, _)
TopVar(stack, id, default) ==
    IF stack = <<>> THEN default
    ELSE IF stack[Len(stack)].id = id THEN stack[Len(stack)].x
    ELSE TopVar(SubSeq(stack, 1, Len(stack) - 1), id, default)

CurrentAlpha(s) == TopVar(s.vars, "Alpha", 1)

\* An item of the given width is laid out at the cursor, which moves to the
\* start of the next line; the end of the item is kept for SameLine.
ImguiItem(s, op, id, width) ==
    IF s.panicked THEN s
    ELSE [Log(s, op, id, s.cursor.X, CurrentAlpha(s))
            EXCEPT !.prevLine = Pt(s.cursor.X + width, s.cursor.Y),
                   !.cursor = Pt(Env.paddingW, s.cursor.Y + Env.lineH)]

(***************************************************************************)
(* Widgets. A widget is a record with a kind; the kind "nil" stands for a  *)
(* nil entry of a Layout. A map of overrides is given as the sequence in   *)
(* which Go's range happens to iterate it (no key twice).                  *)
(***************************************************************************)
\* the start of a window
Home == Pt(Env.paddingW, 0)

NilWidget == [kind |-> "nil"]

BypassKinds == {"selectable", "combo", "combocustom"}

Label(text, width) == [kind |-> "label", text |-> text, width |-> width,
                       font |-> NoFont, wrapped |-> FALSE]

Style(colors, styles, font, disabled, layoutNil, layout) ==
    [kind |-> "style", colors |-> colors, styles |-> styles, font |-> font,
     disabled |-> disabled, layoutNil |-> layoutNil, layout |-> layout]

Align(at, layoutNil, layout) ==
    [kind |-> "align", alignType |-> at, layoutNil |-> layoutNil, layout |-> layout]

Enter(s) == IF s.panicked THEN s ELSE [s EXCEPT !.lvl = @ + 1]

Leave(s) == IF s.panicked THEN s ELSE [s EXCEPT !.lvl = @ - 1]

RECURSIVE Build(_, _)
RECURSIVE LayoutBuild(_, _)
RECURSIVE StyleSetterBuild(_, _)
RECURSIVE AlignmentSetterBuild(_, _)
RECURSIVE GetWidgetWidth(_, _)
RECURSIVE Range(_, _, _)
RECURSIVE AlignItem(_, _, _)
RECURSIVE PushColors(_, _)
RECURSIVE PushStyles(_, _)

\* PushFont reports whether the font was resolved, and pushes it if so.
PushFontOk(font) == font # NoFont /\ font \in extraFontMap

PushFont(s, font) == IF PushFontOk(font) THEN ImguiPushFont(s, font) ELSE s

PopFont(s) == ImguiPopFont(s)

\* LabelWidget.Build: the deferred pops run last pushed first.
LabelWidgetBuild(l, s) ==
    LET s1 == IF l.wrapped THEN Log(s, "PushTextWrapPos", "", 0, 0) ELSE s
        pushed == l.font # NoFont /\ PushFontOk(l.font)
        s2 == IF l.font # NoFont THEN PushFont(s1, l.font) ELSE s1
        s3 == ImguiItem(s2, "Text", l.text, l.width)
        s4 == IF pushed THEN PopFont(s3) ELSE s3
    IN IF l.wrapped THEN Log(s4, "PopTextWrapPos", "", 0, 0) ELSE s4

\* SelectableWidget, ComboWidget, ComboCustomWidget: one item drawn at the cursor.
BypassWidgetBuild(w, s) == ImguiItem(s, w.kind, w.text, w.width)

\* how a widget shows in the list of calls
Name(w) == IF w.kind = "label" \/ w.kind \in BypassKinds THEN w.text ELSE w.kind

\* A widget's Build: the calls it makes itself are logged one level below
\* those of its caller. A call on a nil widget panics in the caller.
Build(w, s) ==
    IF s.panicked THEN s
    ELSE IF w.kind = "nil" THEN Panic(s, "nil pointer dereference")
    ELSE LET s0 == Log(Enter(s), "Build", Name(w), 0, 0)
             s1 == CASE w.kind = "label" -> LabelWidgetBuild(w, s0)
                     [] w.kind = "style" -> StyleSetterBuild(w, s0)
                     [] w.kind = "align" -> AlignmentSetterBuild(w, s0)
                     [] w.kind \in BypassKinds -> BypassWidgetBuild(w, s0)
                     [] OTHER -> Panic(s0, "nil pointer dereference")
         IN Leave(s1)

\* Layout.Build: every non-nil widget, in insertion order.
LayoutBuild(l, s) ==
    IF l = <<>> THEN s
    ELSE LayoutBuild(Tail(l), IF Head(l).kind = "nil" THEN s ELSE Build(Head(l), s))

(***************************************************************************)
(* Style.go: StyleSetter.Build                                             *)
(***************************************************************************)
PushColors(cs, s) ==
    IF cs = <<>> THEN s
    ELSE PushColors(Tail(cs), ImguiPushStyleColor(s, Head(cs).id, Head(cs).col))

\* a push whose kind follows the value supplied
PushStyleVar_ByValue(s, v) ==
    IF v.kind = "vec2"
    THEN ImguiPushStyleVarVec2(s, v.id, v.x, v.y)
    ELSE ImguiPushStyleVarFloat(s, v.id, v.x)

\* One style-variable override: the slot decides the kind of the push.
PushStyleVar(s, v) ==
    IF IsVec2(v.id)
    THEN ImguiPushStyleVarVec2(s, v.id, v.x, IF v.kind = "vec2" THEN v.y ELSE v.x)
    ELSE ImguiPushStyleVarFloat(s, v.id, v.x)

PushStyles(vs, s) ==
    IF vs = <<>> THEN s
    ELSE PushStyles(Tail(vs), PushStyleVar(s, Head(vs)))

\* a setter that forgets the zero-length layout
StyleLayoutEmpty_NilOnly(ss) == ss.layoutNil

StyleLayoutEmpty(ss) == ss.layoutNil \/ Len(ss.layout) = 0

\* a setter that pops a single color
ColorPopCount_One(ss) == Min(Len(ss.colors), 1)

ColorPopCount(ss) == Len(ss.colors)

StylePopCount(ss) == Len(ss.styles)

StyleSetterBuild(ss, s) ==
    IF StyleLayoutEmpty(ss) THEN s
    ELSE LET s1 == PushColors(ss.colors, s)
             s2 == PushStyles(ss.styles, s1)
             isFontPushed == ss.font # NoFont /\ PushFontOk(ss.font)
             s3 == IF ss.font # NoFont THEN PushFont(s2, ss.font) ELSE s2
             s4 == ImguiBeginDisabled(s3, ss.disabled)
             s5 == LayoutBuild(ss.layout, s4)
             s6 == ImguiEndDisabled(s5)
             s7 == IF isFontPushed THEN PopFont(s6) ELSE s6
             s8 == ImguiPopStyleColorV(s7, ColorPopCount(ss))
             s9 == ImguiPopStyleVarV(s8, StylePopCount(ss))
         IN s9

(***************************************************************************)
(* Alignment.go: GetWidgetWidth and AlignmentSetter.Build                  *)
(***************************************************************************)
GetCursorPos(s) == s.cursor

ReadCursorPos(s) == IF s.panicked THEN s ELSE Log(s, "GetCursorPos", "", s.cursor.X, s.cursor.Y)

SetCursorPos(s, p) ==
    IF s.panicked THEN s
    ELSE [Log(s, "SetCursorPos", "", p.X, p.Y) EXCEPT !.cursor = p]

\* GetItemSpacing, GetWindowPadding: the current style's values.
GetItemSpacing(s) == TopVar(s.vars, "ItemSpacing", Env.spacingW)

GetWindowPadding(s) == TopVar(s.vars, "WindowPadding", Env.paddingW)

\* GetAvailableRegion: what is left of the content region from the cursor.
GetAvailableRegion(s) == Env.contentMaxX - s.cursor.X

\* imgui.SameLine: the cursor goes behind the last item, on its line.
ImguiSameLine(s) ==
    IF s.panicked THEN s
    ELSE [Log(s, "SameLine", "", 0, 0)
            EXCEPT !.cursor = Pt(s.prevLine.X + GetItemSpacing(s), s.prevLine.Y)]

\* a dry run that forgets the item spacing
GetWidgetWidth_NoSpacing(w, s) ==
    LET currentPos == GetCursorPos(s)
        s1 == ReadCursorPos(s)
        s2 == ImguiPushStyleVarFloat(s1, "Alpha", 0)
        s3 == Build(w, s2)
        s4 == ImguiPopStyleVarV(s3, 1)
        s5 == ImguiSameLine(s4)
        s6 == Log(s5, "GetItemSpacing", "", GetItemSpacing(s5), 0)
        s7 == SetCursorPos(ReadCursorPos(s6), currentPos)
    IN [result |-> GetCursorPos(s6).X - currentPos.X, s |-> s7]

\* The dry run: [result |-> the width, s |-> the state it leaves].
GetWidgetWidth(w, s) ==
    LET currentPos == GetCursorPos(s)
        s1 == ReadCursorPos(s)
        s2 == ImguiPushStyleVarFloat(s1, "Alpha", 0)
        s3 == Build(w, s2)
        s4 == ImguiPopStyleVarV(s3, 1)
        s5 == ImguiSameLine(s4)
        spacingW == GetItemSpacing(s5)
        s6 == Log(s5, "GetItemSpacing", "", spacingW, 0)
        result == (GetCursorPos(s6).X - currentPos.X) - spacingW
        s7 == SetCursorPos(ReadCursorPos(s6), currentPos)
    IN [result |-> result, s |-> s7]

\* a centering that forgets to halve
AlignCursor_NoHalf(a, s, currentPos, availableW, w) ==
    CASE a.alignType = AlignLeft -> SetCursorPos(s, currentPos)
      [] a.alignType = AlignCenter -> SetCursorPos(s, Pt(availableW - w, currentPos.Y))
      [] a.alignType = AlignRight -> SetCursorPos(s, Pt(availableW - w, currentPos.Y))
      [] OTHER -> Panic(s, "giu: (*AlignSetter).Build: unknown align type")

\* an unknown alignment type that falls back to the left
AlignCursor_FallbackLeft(a, s, currentPos, availableW, w) ==
    CASE a.alignType = AlignCenter -> SetCursorPos(s, Pt(IntOfHalves(availableW - w), currentPos.Y))
      [] a.alignType = AlignRight -> SetCursorPos(s, Pt(availableW - w, currentPos.Y))
      [] OTHER -> SetCursorPos(s, currentPos)

\* The switch on the alignment type: where the cursor is set for the real build.
AlignCursor(a, s, currentPos, availableW, w) ==
    CASE a.alignType = AlignLeft -> SetCursorPos(s, currentPos)
      [] a.alignType = AlignCenter -> SetCursorPos(s, Pt(IntOfHalves(availableW - w), currentPos.Y))
      [] a.alignType = AlignRight -> SetCursorPos(s, Pt(availableW - w, currentPos.Y))
      [] OTHER -> Panic(s, "giu: (*AlignSetter).Build: unknown align type")

\* a range function that does not skip nil entries
IsNilItem_Never(item) == FALSE

IsNilItem(item) == item.kind = "nil"

\* a type switch that knows the nested alignment setters only
IsBypass_AlignOnly(item) == item.kind = "align"

\* the type switch: nested alignment setters, selectables and combos
IsBypass(item) == item.kind = "align" \/ item.kind \in BypassKinds

\* a range function that measures and places, and leaves out the real build
AlignItem_NoRebuild(a, item, s) ==
    IF s.panicked \/ IsNilItem(item) THEN s
    ELSE IF IsBypass(item) THEN Build(item, s)
    ELSE LET currentPos == GetCursorPos(s)
             m == GetWidgetWidth(item, ReadCursorPos(s))
             region == GetAvailableRegion(m.s)
             s3 == Log(m.s, "GetAvailableRegion", "", region, 0)
             paddingW == GetWindowPadding(s3)
             s4 == Log(s3, "GetWindowPadding", "", paddingW, 0)
         IN AlignCursor(a, s4, currentPos, region + 2 * paddingW, m.result)

\* The function handed to Range: one item of the layout.
AlignItem(a, item, s) ==
    IF s.panicked \/ IsNilItem(item) THEN s
    ELSE IF IsBypass(item) THEN Build(item, s)
    ELSE LET currentPos == GetCursorPos(s)
             s1 == ReadCursorPos(s)
             m == GetWidgetWidth(item, s1)
             w == m.result
             s2 == m.s
             region == GetAvailableRegion(s2)
             s3 == Log(s2, "GetAvailableRegion", "", region, 0)
             paddingW == GetWindowPadding(s3)
             s4 == Log(s3, "GetWindowPadding", "", paddingW, 0)
             availableW == region + 2 * paddingW
             s5 == AlignCursor(a, s4, currentPos, availableW, w)
             s6 == IF s5.panicked THEN s5
                   ELSE [s5 EXCEPT !.places = Append(@,
                            [P |-> currentPos, W |-> w, A |-> availableW,
                             at |-> s5.cursor, alignType |-> a.alignType,
                             item |-> item, lvl |-> s5.lvl])]
         IN Build(item, s6)

\* Layout.Range: the function is called on every entry, in insertion order.
Range(l, a, s) ==
    IF l = <<>> THEN s
    ELSE Range(Tail(l), a, AlignItem(a, Head(l), s))

\* a setter that checks its alignment type before it ranges over the layout
AlignmentSetterBuild_CheckFirst(a, s) ==
    IF a.layoutNil THEN s
    ELSE IF a.alignType \notin {AlignLeft, AlignCenter, AlignRight}
    THEN Panic(s, "giu: (*AlignSetter).Build: unknown align type")
    ELSE Range(a.layout, a, s)

AlignmentSetterBuild(a, s) ==
    IF a.layoutNil THEN s
    ELSE Range(a.layout, a, s)

(***************************************************************************)
(* Fuzzy matching (github.com/sahilm/fuzzy, which TextWidgets.go calls).   *)
(* A string is a sequence of one-character strings; "" stands for the      *)
(* rune 0 the matcher uses for "no character".                             *)
(***************************************************************************)
firstCharMatchBonus == 10

matchFollowingSeparatorBonus == 20

camelCaseMatchBonus == 20

adjacentMatchBonus == 5

unmatchedLeadingCharPenalty == -5

maxUnmatchedLeadingCharPenalty == -15

IsUpper(c) == c \in {"A", "B", "C"}

IsLower(c) == c \in {"a", "b", "c", "d", "x", "y", "z"}

ToLower(c) == IF c = "A" THEN "a" ELSE IF c = "B" THEN "b" ELSE IF c = "C" THEN "c" ELSE c

equalFold(tr, sr) == ToLower(tr) = ToLower(sr)

isSeparator(c) == c \in {"/", "-", "_", " ", ".", "\\"}

adjacentCharBonus(i, lastMatch, currentBonus) ==
    IF lastMatch = i THEN currentBonus * 2 + adjacentMatchBonus ELSE 0

Scan0 == [patternIndex |-> 0, bestScore |-> -1, matchedIndex |-> -1,
          currAdjacentMatchBonus |-> 0, last |-> "", lastIndex |-> 0,
          MatchedIndexes |-> <<>>, Score |-> 0]

\* The score of the candidate's character j (counted from 0), if it matches
\* the pattern's current character.
ScanScore(str, runes, j, m) ==
    LET hit == equalFold(str[j + 1], runes[m.patternIndex + 1])
        bonus == IF hit /\ Len(m.MatchedIndexes) > 0
                 THEN adjacentCharBonus(m.lastIndex, m.MatchedIndexes[Len(m.MatchedIndexes)],
                                        m.currAdjacentMatchBonus)
                 ELSE 0
    IN [hit |-> hit, bonus |-> bonus,
        score |-> (IF j = 0 THEN firstCharMatchBonus ELSE 0)
                  + (IF IsLower(m.last) /\ IsUpper(str[j + 1]) THEN camelCaseMatchBonus ELSE 0)
                  + (IF j # 0 /\ isSeparator(m.last) THEN matchFollowingSeparatorBonus ELSE 0)
                  + bonus]

\* The best match of the pattern's current character so far.
ScanBest(j, m, h) ==
    IF h.hit /\ h.score > m.bestScore
    THEN [m EXCEPT !.bestScore = h.score, !.matchedIndex = j,
                   !.currAdjacentMatchBonus = @ + h.bonus]
    ELSE [m EXCEPT !.currAdjacentMatchBonus = @ + h.bonus]

\* The best match is applied when the next character matches the pattern's
\* next one, or when the candidate ends.
ScanApply(str, runes, j, m) ==
    LET nextp == IF m.patternIndex < Len(runes) - 1 THEN runes[m.patternIndex + 2] ELSE ""
        nextc == IF j + 1 < Len(str) THEN str[j + 2] ELSE ""
        penalty == IF Len(m.MatchedIndexes) = 0
                   THEN Max(m.matchedIndex * unmatchedLeadingCharPenalty, maxUnmatchedLeadingCharPenalty)
                   ELSE 0
    IN IF (equalFold(nextp, nextc) \/ nextc = "") /\ m.matchedIndex > -1
       THEN [m EXCEPT !.patternIndex = @ + 1, !.bestScore = -1,
                      !.MatchedIndexes = Append(@, m.matchedIndex),
                      !.Score = @ + m.bestScore + penalty,
                      !.last = str[j + 1], !.lastIndex = j]
       ELSE [m EXCEPT !.last = str[j + 1], !.lastIndex = j]

\* One round of the loop over the characters of a candidate.
ScanStep(str, runes, j, m) ==
    ScanApply(str, runes, j, ScanBest(j, m, ScanScore(str, runes, j, m)))

\* The loop stops with the candidate, or once the whole pattern is matched
\* (which happens on the candidate's last character).
RECURSIVE Scan(_, _, _, _)
Scan(str, runes, j, m) ==
    IF j >= Len(str) \/ m.patternIndex >= Len(runes) THEN m
    ELSE Scan(str, runes, j + 1, ScanStep(str, runes, j, m))

\* One candidate against the pattern: the unmatched characters cost one each.
FuzzyMatch(runes, str, index) ==
    LET m == Scan(str, runes, 0, Scan0) IN
    [matched |-> Len(m.MatchedIndexes) = Len(runes),
     match |-> [Str |-> str, Index |-> index,
                MatchedIndexes |-> m.MatchedIndexes,
                Score |-> m.Score + (Len(m.MatchedIndexes) - Len(str))]]

\* Matches.Less: the higher score first.
Less(a, b) == a.Score >= b.Score

\* sort.Stable on fewer than 20 elements is an insertion sort: the new element
\* goes left as long as it is Less than its left neighbour.
RECURSIVE InsertMatch(_, _)
InsertMatch(sorted, m) ==
    IF sorted # <<>> /\ Less(m, sorted[Len(sorted)])
    THEN Append(InsertMatch(SubSeq(sorted, 1, Len(sorted) - 1), m), sorted[Len(sorted)])
    ELSE Append(sorted, m)

RECURSIVE FindFrom(_, _, _, _)
FindFrom(runes, data, i, acc) ==
    IF i > Len(data) THEN acc
    ELSE LET r == FuzzyMatch(runes, data[i], i - 1) IN
         FindFrom(runes, data, i + 1, IF r.matched THEN Append(acc, r.match) ELSE acc)

RECURSIVE SortMatches(_, _)
SortMatches(ms, acc) ==
    IF ms = <<>> THEN acc ELSE SortMatches(Tail(ms), InsertMatch(acc, Head(ms)))

\* fuzzy.Find: the candidates the pattern is a subsequence of, best score first.
Find(pattern, data) ==
    IF Len(pattern) = 0 THEN <<>>
    ELSE SortMatches(FindFrom(pattern, data, 1, <<>>), <<>>)

(***************************************************************************)
(* The State Store and TextWidgets.go: InputTextWidget.Build               *)
(***************************************************************************)
Ids == {"in1", "in2"}

Absent == [type |-> "absent"]

\* &inputTextState{}: a new object, with no match stored
NewInputTextState(obj) == [type |-> "inputTextState", obj |-> obj, autoCompleteCandidates |-> <<>>]

\* the state another kind of widget keeps under its identifier
OtherState == [type |-> "otherState"]

GetState(st, id) == st.states[id]

SetState(st, id, data) == [st EXCEPT !.states[id] = data]

ILog(st, op) == [st EXCEPT !.calls = Append(@, op)]

IPanic(st, msg) ==
    IF st.panicked THEN st
    ELSE [ILog(st, msg) EXCEPT !.panicked = TRUE, !.gui = Panic(@, msg)]

\* the width the backend gives an item that has none of its own
DefaultItemWidth == 12

ItemWidth(i) == IF i.width # 0 THEN i.width ELSE DefaultItemWidth

\* PushItemWidth, and PopItemWidth, which is deferred: it runs when Build
\* returns and also when a panic unwinds it
PushItemWidth(st, width) ==
    [ILog(st, "PushItemWidth") EXCEPT !.gui = Log(@, "PushItemWidth", "", width, 0)]

PopItemWidth(st) ==
    [ILog(st, "PopItemWidth")
        EXCEPT !.gui.calls = Append(@, Entry("PopItemWidth", "", 0, 0, st.gui.lvl))]

\* giu's assertion: fatal when the condition does not hold
GiuAssert(st, cond, msg) == IF cond THEN st ELSE IPanic(st, msg)

\* a build that takes a new state every time
NeedsNewState_Always(s) == TRUE

NeedsNewState(s) == s = Absent

\* a widget that keeps every match
MatchesSize_All(n) == n

\* size := int(math.Min(5, float64(matches.Len())))
MatchesSize(n) == Min(5, n)

\* the state the build works on: nil when the recovered state is of another type
StateIsNil(st, label) == st.states[label].type # "inputTextState"

Stored(st, label) ==
    IF StateIsNil(st, label) THEN <<>> ELSE st.states[label].autoCompleteCandidates

\* a lookup that replaces a state of another type by a new one
RecoverState_Coerce(i, st) ==
    LET s == GetState(st, i.label) IN
    IF s.type # "inputTextState"
    THEN [SetState(st, i.label, NewInputTextState(st.hist.objs + 1))
            EXCEPT !.hist.objs = @ + 1,
                   !.hist.allocs[i.label] = @ + 1,
                   !.hist.first[i.label] = IF @ = 0 THEN st.hist.objs + 1 ELSE @]
    ELSE st

\* (*inputTextState).Dispose
Dispose(s) == [s EXCEPT !.autoCompleteCandidates = <<>>]

\* Get state (the state store is looked up by the label)
RecoverState(i, st) ==
    LET s == GetState(st, i.label) IN
    IF NeedsNewState(s)
    THEN [SetState(st, i.label, NewInputTextState(st.hist.objs + 1))
            EXCEPT !.hist.objs = @ + 1,
                   !.hist.allocs[i.label] = @ + 1,
                   !.hist.first[i.label] = IF @ = 0 THEN st.hist.objs + 1 ELSE @]
    ELSE GiuAssert(st, s.type = "inputTextState", "giu: (*InputTextWidget).Build: wrong state type recovered.")

\* imgui.InputTextWithHint: the input box is laid out at the cursor, and the
\* user's edit, if any, is written to the value
InputTextWithHint(i, edit, st) ==
    IF st.panicked THEN st
    ELSE LET st1 == [ILog(st, "InputTextWithHint")
                        EXCEPT !.gui = ImguiItem(@, "InputTextWithHint", i.label, ItemWidth(i))]
         IN IF edit.changed THEN [st1 EXCEPT !.values[i.label] = edit.text] ELSE st1

\* The tooltip is a window of its own, set below the input box: the labels are
\* laid out from its start, and the cursor of the window that holds the input
\* box is the same after EndTooltip as before BeginTooltip.
BeginTooltip(width, s) ==
    [Log(Log(s, "SetNextWindowPos", "", s.prevLine.X - width, s.prevLine.Y + Env.lineH),
         "BeginTooltip", "", 0, 0) EXCEPT !.cursor = Home, !.prevLine = Home]

EndTooltip(s, t) ==
    IF t.panicked THEN t
    ELSE [Log(t, "EndTooltip", "", 0, 0) EXCEPT !.cursor = s.cursor, !.prevLine = s.prevLine]

Tooltip(width, m, s) ==
    EndTooltip(s, LayoutBuild([k \in 1..Len(m) |-> Label(m[k].Str, Len(m[k].Str))],
                              BeginTooltip(width, s)))

\* Enable auto complete
AutoComplete(i, edit, st) ==
    IF st.panicked \/ ~edit.changed \/ Len(i.candidates) = 0 THEN st
    ELSE LET matches == Find(st.values[i.label], i.candidates) IN
         IF Len(matches) = 0 THEN [st EXCEPT !.found = matches]
         ELSE IF StateIsNil(st, i.label) THEN IPanic(st, "nil pointer dereference")
         ELSE [st EXCEPT !.found = matches,
                         !.hist.found[i.label] = matches,
                         !.states[i.label].autoCompleteCandidates =
                             SubSeq(matches, 1, MatchesSize(Len(matches)))]

\* an enter key that keeps the matches
OnEnter_KeepMatches(i, st) ==
    [st EXCEPT !.values[i.label] = st.states[i.label].autoCompleteCandidates[1].Str]

\* Press enter will replace value string with first match candidate
OnEnter(i, st) ==
    [st EXCEPT !.values[i.label] = st.states[i.label].autoCompleteCandidates[1].Str,
               !.states[i.label].autoCompleteCandidates = <<>>]

\* the stored matches are shown as labels in a tooltip
Overlay(i, m, st) ==
    [ILog(st, "Tooltip") EXCEPT !.overlay = [k \in 1..Len(m) |-> m[k].Str],
                                !.gui = Tooltip(ItemWidth(i), m, @)]

KeyPressed(i, enter, st) ==
    IF enter
    THEN OnEnter(i, [ILog(st, "IsKeyPressed") EXCEPT !.gui = Log(@, "IsKeyPressed", "", 0, 0)])
    ELSE [ILog(st, "IsKeyPressed") EXCEPT !.gui = Log(@, "IsKeyPressed", "", 0, 0)]

\* Draw autocomplete list
DrawAutoComplete(i, enter, st) ==
    IF st.panicked THEN st
    ELSE IF StateIsNil(st, i.label) THEN IPanic(st, "nil pointer dereference")
    ELSE IF Len(Stored(st, i.label)) = 0 THEN st
    ELSE KeyPressed(i, enter, Overlay(i, Stored(st, i.label), st))

\* if isChanged && i.onChange != nil
OnChange(i, edit, st) ==
    IF ~st.panicked /\ edit.changed /\ i.onChange THEN ILog(st, "onChange") ELSE st

\* Build from the input box on
InputTextBody(i, edit, enter, st) ==
    DrawAutoComplete(i, enter, AutoComplete(i, edit, OnChange(i, edit, InputTextWithHint(i, edit, st))))

\* Build once the state is recovered: the width, if any, is pushed around the rest
InputTextSized(i, edit, enter, st) ==
    IF ~st.panicked /\ i.width # 0
    THEN PopItemWidth(InputTextBody(i, edit, enter, PushItemWidth(st, i.width)))
    ELSE InputTextBody(i, edit, enter, st)

InputTextWidgetBuild(i, edit, enter, st) ==
    InputTextSized(i, edit, enter, RecoverState(i, st))

\* Another kind of widget built under the identifier: it keeps a state of its own type.
OtherWidgetBuild(id, st) ==
    LET s == GetState(st, id) IN
    IF s = Absent THEN SetState(st, id, OtherState)
    ELSE GiuAssert(st, s.type = "otherState", "giu: wrong state type recovered.")

(***************************************************************************)
(* The text inputs the application builds, and what the user does.         *)
(***************************************************************************)
Str1(a) == <<a>>

Str2(a, b) == <<a, b>>

Str3(a, b, c) == <<a, b, c>>

\* the candidates of the specification's example
Example == <<Str3("a", "b", "c"), Str3("x", "y", "z"), Str3("a", "b", "d")>>

Many == <<Str1("a"), Str2("a", "b"), Str2("b", "a"), Str3("a", "b", "c"), Str3("b", "a", "b"),
          Str3("c", "a", "b"), Str3("a", "_", "b"), Str2("a", "B")>>

CandidateLists == {<<>>, Example, Many}

Texts == {<<>>, Str1("a"), Str2("a", "b"), Str2("z", "z")}

InputText(label, width, candidates, onChange) ==
    [label |-> label, width |-> width, candidates |-> candidates, onChange |-> onChange]

InputWidgets ==
    {InputText("in1", 0, c, FALSE) : c \in CandidateLists}
    \cup {InputText("in2", 10, <<>>, TRUE)}

NoEdit == [changed |-> FALSE, text |-> <<>>]

Edits(i) ==
    {NoEdit} \cup {[changed |-> TRUE, text |-> t] :
                      t \in (IF i.label = "in1" THEN Texts ELSE {Str1("a")}) \ {values[i.label]}}

Hist0 == [objs |-> 0, allocs |-> [id \in Ids |-> 0], first |-> [id \in Ids |-> 0],
          found |-> [id \in Ids |-> <<>>], built |-> [id \in Ids |-> FALSE]]

NoFrame == [kind |-> "none"]

(***************************************************************************)
(* The widgets the application builds.                                     *)
(***************************************************************************)
L3 == Label("abc", 3)

L4 == Label("abcd", 4)

Sel == [kind |-> "selectable", text |-> "sel", width |-> 5]

Combo == [kind |-> "combo", text |-> "combo", width |-> 6]

ComboCustom == [kind |-> "combocustom", text |-> "custom", width |-> 6]

Color(id) == [id |-> id, col |-> IF id = "Text" THEN 1 ELSE 2]

\* the iteration orders of the color maps over {Text, Button}
ColorBatches == {<<>>, <<Color("Text")>>, <<Color("Button")>>,
                 <<Color("Text"), Color("Button")>>, <<Color("Button"), Color("Text")>>}

\* SetStyleFloat(id, x) and SetStyle(id, x, y)
Float(id, x) == [id |-> id, kind |-> "float", x |-> x, y |-> 0]

Vec2(id, x, y) == [id |-> id, kind |-> "vec2", x |-> x, y |-> y]

\* the iteration orders of the style maps
StyleBatches == {<<>>,
                 <<Float("Alpha", 1)>>, <<Vec2("Alpha", 1, 0)>>,
                 <<Float("WindowPadding", 3)>>, <<Vec2("WindowPadding", 4, 5)>>,
                 <<Float("Alpha", 1), Vec2("WindowPadding", 4, 5)>>,
                 <<Vec2("WindowPadding", 4, 5), Float("Alpha", 1)>>,
                 <<Float("WindowPadding", 3), Vec2("Alpha", 1, 0)>>,
                 <<Vec2("Alpha", 1, 0), Float("WindowPadding", 3)>>,
                 <<Vec2("ItemSpacing", 2, 2), Float("WindowRounding", 1)>>,
                 <<Float("WindowRounding", 1), Vec2("ItemSpacing", 2, 2)>>}

\* setters nested in a setter's layout
InnerSetters ==
    {Style(<<Color("Text")>>, <<>>, NoFont, FALSE, FALSE, <<L3>>),
     Style(<<>>, <<Float("Alpha", 1)>>, "f1", TRUE, FALSE, <<L4>>),
     Style(<<Color("Button"), Color("Text")>>, <<Vec2("WindowPadding", 4, 5)>>, "unregistered", FALSE, FALSE, <<>>),
     Style(<<Color("Button")>>, <<Float("WindowPadding", 3)>>, "f1", FALSE, FALSE,
           <<NilWidget, Style(<<Color("Text")>>, <<Float("Alpha", 1)>>, "f1", TRUE, FALSE, <<L3>>)>>)}

StyleLayouts ==
    {<<L3>>, <<NilWidget>>, <<NilWidget, L4>>, <<L3, Sel>>,
     <<Align(AlignCenter, FALSE, <<L3>>)>>}
    \cup {<<i>> : i \in InnerSetters}
    \cup {<<i, L3, j>> : i \in InnerSetters, j \in InnerSetters}

StyleSetters ==
    {Style(c, v, f, d, FALSE, <<L3>>) : c \in ColorBatches, v \in StyleBatches, f \in Fonts, d \in BOOLEAN}
    \cup {Style(c, v, f, d, n, <<>>) : c \in ColorBatches, v \in {<<>>, <<Float("Alpha", 1)>>},
                                       f \in Fonts, d \in BOOLEAN, n \in BOOLEAN}
    \cup {Style(c, v, f, FALSE, FALSE, l) :
            c \in {<<>>, <<Color("Button"), Color("Text")>>, <<Color("Text"), Color("Button")>>},
            v \in {<<>>, <<Float("WindowPadding", 3), Vec2("Alpha", 1, 0)>>,
                   <<Vec2("Alpha", 1, 0), Float("WindowPadding", 3)>>},
            f \in {NoFont, "f1"}, l \in StyleLayouts}

(***************************************************************************)
(* The state machine: what the application does with the backend.          *)
(***************************************************************************)
Gui0 == [colors |-> <<>>, vars |-> <<>>, fonts |-> <<>>, disabled |-> <<>>,
         cursor |-> Home, prevLine |-> Home, calls |-> <<>>, places |-> <<>>,
         panicked |-> FALSE, lvl |-> 0]

Init ==
    /\ gui = Gui0
    /\ last = NilWidget
    /\ pre = Gui0
    /\ builds = 0
    /\ states = [id \in Ids |-> Absent]
    /\ values = [id \in Ids |-> <<>>]
    /\ inframe = NoFrame
    /\ crashed = FALSE
    /\ hist = Hist0

\* the backend as an operation finds it: the calls of the last one forgotten
Fresh(s) == [s EXCEPT !.calls = <<>>, !.places = <<>>]

\* One operation of the application on the backend.
Do(what, s) ==
    /\ pre' = Fresh(gui)
    /\ gui' = s
    /\ last' = what
    /\ UNCHANGED inputVars

App(op) == [kind |-> "app", op |-> op]

\* A new frame: the window begins with the cursor at its start. The backend
\* demands that every stack is back to empty when a frame ends.
NewFrame ==
    /\ ~gui.panicked
    /\ gui.colors = <<>> /\ gui.vars = <<>> /\ gui.fonts = <<>> /\ gui.disabled = <<>>
    /\ last # NilWidget
    /\ gui' = Gui0
    /\ pre' = Gui0
    /\ last' = NilWidget
    /\ builds' = 0
    /\ UNCHANGED inputVars

AppPushStyleColor ==
    /\ ~gui.panicked /\ builds = 0 /\ Len(gui.colors) < MaxAmbient
    /\ Do(App("PushStyleColor"), ImguiPushStyleColor(Fresh(gui), "Text", Color("Text").col))
    /\ UNCHANGED builds

AppPushColorText ==
    /\ ~gui.panicked /\ builds = 0 /\ Len(gui.colors) < MaxAmbient
    /\ Do(App("PushColorText"), ImguiPushStyleColor(Fresh(gui), "Text", Color("Text").col))
    /\ UNCHANGED builds

\* The pushes of the other slots, within the first MaxOther entries of the stack.
AppPushColorTextDisabled ==
    /\ ~gui.panicked /\ builds = 0 /\ Len(gui.colors) < MaxOther
    /\ Do(App("PushColorTextDisabled"), ImguiPushStyleColor(Fresh(gui), "TextDisabled", 2))
    /\ UNCHANGED builds

AppPushColorWindowBg ==
    /\ ~gui.panicked /\ builds = 0 /\ Len(gui.colors) < MaxOther
    /\ Do(App("PushColorWindowBg"), ImguiPushStyleColor(Fresh(gui), "WindowBg", 2))
    /\ UNCHANGED builds

AppPushColorFrameBg ==
    /\ ~gui.panicked /\ builds = 0 /\ Len(gui.colors) < MaxOther
    /\ Do(App("PushColorFrameBg"), ImguiPushStyleColor(Fresh(gui), "FrameBg", 2))
    /\ UNCHANGED builds

AppPushColorButton ==
    /\ ~gui.panicked /\ builds = 0 /\ Len(gui.colors) < MaxOther
    /\ Do(App("PushColorButton"), ImguiPushStyleColor(Fresh(gui), "Button", Color("Button").col))
    /\ UNCHANGED builds

AppPushColorButtonHovered ==
    /\ ~gui.panicked /\ builds = 0 /\ Len(gui.colors) < MaxOther
    /\ Do(App("PushColorButtonHovered"), ImguiPushStyleColor(Fresh(gui), "ButtonHovered", 2))
    /\ UNCHANGED builds

AppPushColorButtonActive ==
    /\ ~gui.panicked /\ builds = 0 /\ Len(gui.colors) < MaxOther
    /\ Do(App("PushColorButtonActive"), ImguiPushStyleColor(Fresh(gui), "ButtonActive", 2))
    /\ UNCHANGED builds

AppPopStyleColor ==
    /\ ~gui.panicked /\ Len(gui.colors) > 0
    /\ Do(App("PopStyleColor"), ImguiPopStyleColorV(Fresh(gui), 1))
    /\ UNCHANGED builds

\* The application unwinds after the build: PopStyleColorV(count), with a
\* count the stack can give.
AppPopStyleColorV ==
    /\ ~gui.panicked /\ builds = 1
    /\ \E count \in 0..Len(gui.colors) :
          Do(App("PopStyleColorV"), ImguiPopStyleColorV(Fresh(gui), count))
    /\ UNCHANGED builds

AppPushFont ==
    /\ ~gui.panicked /\ builds = 0 /\ Len(gui.fonts) < MaxAmbient
    /\ \E f \in Fonts : Do(App("PushFont"), PushFont(Fresh(gui), f))
    /\ UNCHANGED builds

AppPopFont ==
    /\ ~gui.panicked /\ Len(gui.fonts) > 0
    /\ Do(App("PopFont"), PopFont(Fresh(gui)))
    /\ UNCHANGED builds

AppPushWindowPadding ==
    /\ ~gui.panicked /\ builds = 0 /\ Len(gui.vars) < MaxAmbient
    /\ Do(App("PushWindowPadding"), ImguiPushStyleVarVec2(Fresh(gui), "WindowPadding", 3, 3))
    /\ UNCHANGED builds

AppPushItemSpacing ==
    /\ ~gui.panicked /\ builds = 0 /\ Len(gui.vars) < MaxAmbient
    /\ Do(App("PushItemSpacing"), ImguiPushStyleVarVec2(Fresh(gui), "ItemSpacing", 4, 4))
    /\ UNCHANGED builds

AppPushFramePadding ==
    /\ ~gui.panicked /\ builds = 0 /\ Len(gui.vars) < MaxAmbient
    /\ Do(App("PushFramePadding"), ImguiPushStyleVarVec2(Fresh(gui), "FramePadding", 2, 2))
    /\ UNCHANGED builds

AppPushButtonTextAlign ==
    /\ ~gui.panicked /\ builds = 0 /\ Len(gui.vars) < MaxAmbient
    /\ Do(App("PushButtonTextAlign"), ImguiPushStyleVarVec2(Fresh(gui), "ButtonTextAlign", 1, 1))
    /\ UNCHANGED builds

AppPushSelectableTextAlign ==
    /\ ~gui.panicked /\ builds = 0 /\ Len(gui.vars) < MaxAmbient
    /\ Do(App("PushSelectableTextAlign"), ImguiPushStyleVarVec2(Fresh(gui), "SelectableTextAlign", 1, 1))
    /\ UNCHANGED builds

AppPopStyle ==
    /\ ~gui.panicked /\ Len(gui.vars) > 0
    /\ Do(App("PopStyle"), ImguiPopStyleVarV(Fresh(gui), 1))
    /\ UNCHANGED builds

\* The application unwinds after the build: PopStyleV(count), with a count
\* the stack can give.
AppPopStyleV ==
    /\ ~gui.panicked /\ builds = 1
    /\ \E count \in 0..Len(gui.vars) :
          Do(App("PopStyleV"), ImguiPopStyleVarV(Fresh(gui), count))
    /\ UNCHANGED builds

\* The frame's layout holds a StyleSetter: it is built.
BuildStyleSetter ==
    /\ ~gui.panicked /\ builds = 0
    /\ \E ss \in StyleSetters : Do(ss, Build(ss, Fresh(gui)))
    /\ builds' = 1

NextStyle ==
    \/ NewFrame
    \/ AppPushStyleColor
    \/ AppPopStyleColor
    \/ AppPopStyleColorV
    \/ AppPushFont
    \/ AppPopFont
    \/ AppPushWindowPadding
    \/ AppPushItemSpacing
    \/ AppPopStyle
    \/ AppPopStyleV
    \/ BuildStyleSetter

SpecStyle == Init /\ [][NextStyle]_vars

\* The application's color pushes, each with its own slot, around a build.
NextColor ==
    \/ NewFrame
    \/ AppPushStyleColor
    \/ AppPushColorText
    \/ AppPushColorTextDisabled
    \/ AppPushColorWindowBg
    \/ AppPushColorFrameBg
    \/ AppPushColorButton
    \/ AppPushColorButtonHovered
    \/ AppPushColorButtonActive
    \/ AppPopStyleColor
    \/ AppPopStyleColorV
    \/ BuildStyleSetter

SpecColor == Init /\ [][NextColor]_vars

(***************************************************************************)
(* The alignment engine's operations.                                      *)
(***************************************************************************)
AlignTypes == {AlignLeft, AlignCenter, AlignRight, AlignRight + 1}

InnerAligns == {Align(AlignRight, FALSE, <<L3>>), Align(AlignRight + 1, FALSE, <<Sel>>)}

FaultyAlign == Align(AlignRight + 1, FALSE, <<L4>>)

\* a style setter whose layout faults when it is built
FaultyStyle == Style(<<Color("Text")>>, <<>>, NoFont, FALSE, FALSE, <<FaultyAlign>>)

PlainStyle(l) == Style(<<Color("Text")>>, <<Float("WindowPadding", 3)>>, "f1", FALSE, FALSE, l)

AlignLayouts ==
    {<<>>, <<L3>>, <<L4>>, <<NilWidget>>, <<NilWidget, L3>>, <<L3, NilWidget, L4>>,
     <<Sel, L3>>, <<Combo>>, <<ComboCustom, NilWidget>>, <<NilWidget, Sel>>,
     <<L4, Sel, L3>>, <<L4, L3, L4>>,
     <<PlainStyle(<<L3>>)>>, <<PlainStyle(<<>>), L4>>, <<PlainStyle(<<L4, L3>>), NilWidget>>}
    \cup {<<i>> : i \in InnerAligns}
    \cup {<<NilWidget, i, L4>> : i \in InnerAligns}
    \cup {<<Sel, FaultyAlign>>}
    \cup {<<FaultyStyle>>, <<L3, FaultyStyle, L4>>}

AlignSetters ==
    {Align(at, FALSE, l) : at \in AlignTypes, l \in AlignLayouts}
    \cup {Align(at, TRUE, <<>>) : at \in AlignTypes}

\* The application builds a label of its own: the cursor goes to the next line.
AppBuildLabel ==
    /\ ~gui.panicked /\ builds = 0 /\ gui.cursor.Y < MaxLine * Env.lineH
    /\ \E l \in {L3, L4} : Do(App("Label"), Build(l, Fresh(gui)))
    /\ UNCHANGED builds

\* The application continues the line of its last item, within the left half
\* of the window.
AppSameLine ==
    /\ ~gui.panicked /\ builds = 0 /\ last = App("Label")
    /\ 2 * (gui.prevLine.X + GetItemSpacing(gui)) < Env.contentMaxX
    /\ Do(App("SameLine"), ImguiSameLine(Fresh(gui)))
    /\ UNCHANGED builds

\* The frame's layout holds an AlignmentSetter: it is built.
BuildAlignmentSetter ==
    /\ ~gui.panicked /\ builds = 0
    /\ \E a \in AlignSetters : Do(a, Build(a, Fresh(gui)))
    /\ builds' = 1

\* the widgets the application measures
MeasuredWidgets == {L3, L4, Sel, PlainStyle(<<L3>>), PlainStyle(<<L4, L3>>),
                    Style(<<>>, <<Vec2("ItemSpacing", 2, 2)>>, NoFont, TRUE, FALSE, <<L4>>),
                    FaultyAlign, FaultyStyle, NilWidget}

Measure(w, result) == [kind |-> "measure", widget |-> w, result |-> result]

\* The application asks for the width of a widget.
AppGetWidgetWidth ==
    /\ ~gui.panicked /\ builds = 0
    /\ \E w \in MeasuredWidgets :
          LET m == GetWidgetWidth(w, Fresh(gui)) IN Do(Measure(w, m.result), m.s)
    /\ builds' = 1

NextAlign ==
    \/ NewFrame
    \/ AppBuildLabel
    \/ AppSameLine
    \/ AppPushWindowPadding
    \/ AppPushItemSpacing
    \/ AppPushFramePadding
    \/ AppPushButtonTextAlign
    \/ AppPushSelectableTextAlign
    \/ AppPopStyle
    \/ BuildAlignmentSetter
    \/ AppGetWidgetWidth

SpecAlign == Init /\ [][NextAlign]_vars

(***************************************************************************)
(* The text input's operations.                                            *)
(***************************************************************************)
\* the store, the values and the history as a build finds them, in a new
\* frame of the backend
World(name) ==
    [states |-> states, values |-> values, hist |-> hist,
     calls |-> <<>>, overlay |-> <<>>, found |-> <<>>, panicked |-> FALSE,
     gui |-> Log(Enter(Gui0), "Build", name, 0, 0)]

Commit(what, st) ==
    /\ states' = st.states
    /\ values' = st.values
    /\ crashed' = st.panicked
    /\ gui' = Leave(st.gui)
    /\ pre' = Gui0
    /\ last' = what
    /\ UNCHANGED builds

\* what a frame that built the text input leaves
InputFrame(i, edit, enter, st) ==
    /\ Commit([kind |-> "inputtext", widget |-> i], st)
    /\ hist' = IF st.panicked THEN st.hist ELSE [st.hist EXCEPT !.built[i.label] = TRUE]
    /\ inframe' = [kind |-> "input", widget |-> i, edit |-> edit, enter |-> enter,
                   preState |-> states[i.label], preValue |-> values[i.label],
                   preBuilt |-> hist.built[i.label],
                   found |-> st.found, overlay |-> st.overlay,
                   calls |-> st.calls, panicked |-> st.panicked]

\* A frame in which the text input is built: the user may have edited the
\* text and may be pressing enter.
BuildInputText ==
    /\ ~crashed
    /\ \E i \in InputWidgets : \E edit \in Edits(i) : \E enter \in BOOLEAN :
          InputFrame(i, edit, enter, InputTextWidgetBuild(i, edit, enter, World(i.label)))

OtherFrame(id, st) ==
    /\ Commit([kind |-> "other", id |-> id], st)
    /\ hist' = st.hist
    /\ inframe' = [kind |-> "other", id |-> id, preState |-> states[id],
                   calls |-> st.calls, panicked |-> st.panicked]

\* A frame in which a widget of another kind is built under an identifier.
BuildOtherWidget ==
    /\ ~crashed
    /\ \E id \in {"in2"} :
          OtherFrame(id, OtherWidgetBuild(id, World(id)))

\* The state of a text input is disposed of: it stays in the store.
DisposeState ==
    /\ ~crashed
    /\ \E id \in Ids :
          /\ states[id].type = "inputTextState"
          /\ states' = [states EXCEPT ![id] = Dispose(@)]
          /\ inframe' = [kind |-> "dispose", id |-> id]
    /\ UNCHANGED <<values, crashed, hist, guiVars>>

NextInput ==
    \/ BuildInputText
    \/ BuildOtherWidget
    \/ DisposeState

SpecInput == Init /\ [][NextInput]_vars

(***************************************************************************)
(* What the backend observed of the last build.                            *)
(***************************************************************************)
\* the backend calls of a build (the widgets' Build invocations left out)
BackendCalls(s) == SelectSeq(s.calls, LAMBDA e : e.op # "Build")

\* the calls the widget built last made itself (not those of its layout)
Own(ops) == SelectSeq(gui.calls, LAMBDA e : e.lvl = 1 /\ e.op \in ops)

RECURSIVE SumX(_)
SumX(es) == IF es = <<>> THEN 0 ELSE Head(es).x + SumX(Tail(es))

\* the widget has nothing to build: its layout is nil or has no entry
NoLayout(w) == w.layoutNil \/ w.layout = <<>>

BuiltStyle == last.kind = "style" /\ ~gui.panicked

Depths(s) == <<Len(s.colors), Len(s.vars), Len(s.fonts), Len(s.disabled)>>

\* C1: a StyleSetter built over a non-empty layout pushes and pops each of its C
\* colors and V style variables exactly once, pops the font exactly when it
\* pushed it (which it does when the font is set and resolved), and leaves the
\* depth of every backend stack as it found it, whatever is nested in its layout.
C1_Balanced ==
    (BuiltStyle /\ ~NoLayout(last)) =>
        /\ Len(Own({"PushStyleColor"})) = Len(last.colors)
        /\ SumX(Own({"PopStyleColorV"})) = Len(last.colors)
        /\ Len(Own({"PushStyleVarFloat", "PushStyleVarVec2"})) = Len(last.styles)
        /\ SumX(Own({"PopStyleVarV"})) = Len(last.styles)
        /\ Len(Own({"PushFont"})) = (IF last.font \in extraFontMap THEN 1 ELSE 0)
        /\ Len(Own({"PopFont"})) = Len(Own({"PushFont"}))
        /\ Depths(gui) = Depths(pre)

C1_Witness ==
    /\ BuiltStyle /\ ~NoLayout(last)
    /\ Len(last.colors) = 2 /\ Len(last.styles) = 2 /\ last.font = "f1"
    /\ \E i \in 1..Len(last.layout) : last.layout[i].kind = "style" /\ last.layout[i].colors # <<>>
    /\ Len(pre.colors) = 1 /\ Len(pre.fonts) = 1 /\ Len(pre.vars) = 1
    /\ Len(Own({"PopFont"})) = 1

\* C2: a StyleSetter whose layout is nil or empty makes no backend call at all
\* and leaves every backend stack as it was.
C2_EmptyNoCalls ==
    (BuiltStyle /\ NoLayout(last)) =>
        /\ BackendCalls(gui) = <<>>
        /\ gui.colors = pre.colors /\ gui.vars = pre.vars
        /\ gui.fonts = pre.fonts /\ gui.disabled = pre.disabled

C2_Witness ==
    /\ BuiltStyle /\ ~last.layoutNil /\ last.layout = <<>>
    /\ Len(last.colors) = 2 /\ last.styles # <<>> /\ last.font = "f1" /\ last.disabled
    /\ Len(pre.colors) = 2 /\ pre.colors[1].id = "Button"

(***************************************************************************)
(* What the backend observed of the last alignment.                        *)
(***************************************************************************)
BuiltAlign == last.kind = "align"

\* the placements the setter built last made itself
TopPlaces == SelectSeq(gui.places, LAMBDA p : p.lvl = 1)

\* n/2 truncated toward zero is x
IsHalfTruncated(x, n) ==
    IF n >= 0 THEN 2 * x <= n /\ n < 2 * x + 2 ELSE 2 * x >= n /\ n > 2 * x - 2

\* the available width when the setter built last places a widget whose
\* measurement started at P
AvailableAt(P) == (Env.contentMaxX - P.X) + 2 * GetWindowPadding(pre)

\* C3 as stated: the real build starts at (x, Y), with x = X0 for Left,
\* x = A/2 - W/2 for Center and x = A - W for Right.
C3_Original ==
    BuiltAlign =>
        \A i \in 1..Len(TopPlaces) :
            LET p == TopPlaces[i] IN
            /\ p.A = AvailableAt(p.P)
            /\ p.at.Y = p.P.Y
            /\ p.alignType = AlignLeft => p.at.X = p.P.X
            /\ p.alignType = AlignCenter => 2 * p.at.X = p.A - p.W
            /\ p.alignType = AlignRight => p.at.X = p.A - p.W

\* C3, amended: the cursor is an integer point, so for Center the real build
\* starts at x = A/2 - W/2 truncated toward zero; Left and Right as stated,
\* with A the region left of the recorded cursor plus twice the padding.
C3_Placement ==
    BuiltAlign =>
        \A i \in 1..Len(TopPlaces) :
            LET p == TopPlaces[i] IN
            /\ p.A = AvailableAt(p.P)
            /\ p.at.Y = p.P.Y
            /\ p.alignType = AlignLeft => p.at.X = p.P.X
            /\ p.alignType = AlignCenter => IsHalfTruncated(p.at.X, p.A - p.W)
            /\ p.alignType = AlignRight => p.at.X = p.A - p.W

C3_Witness ==
    /\ BuiltAlign /\ ~gui.panicked /\ last.alignType = AlignCenter
    /\ Len(TopPlaces) = 2
    /\ (TopPlaces[1].A - TopPlaces[1].W) % 2 = 1
    /\ TopPlaces[1].P.X # Env.paddingW
    /\ GetWindowPadding(pre) # Env.paddingW
    /\ TopPlaces[2].at.X = IntOfHalves(TopPlaces[2].A - TopPlaces[2].W)

\* the Build invocations the setter built last made on its layout's entries
ChildBuilds == SelectSeq(gui.calls, LAMBDA e : e.op = "Build" /\ e.lvl = 2)

Names(es) == [i \in 1..Len(es) |-> es[i].id]

NoNils(l) == SelectSeq(l, LAMBDA w : w.kind # "nil")

Measured(w) == w.kind # "nil" /\ w.kind # "align" /\ w.kind \notin BypassKinds

\* what a setter of a valid type invokes: bypass entries once, the others twice
RECURSIVE ExpectedBuilds(_)
ExpectedBuilds(l) ==
    IF l = <<>> THEN <<>>
    ELSE (IF Head(l).kind = "nil" THEN <<>>
          ELSE IF Measured(Head(l)) THEN <<Name(Head(l)), Name(Head(l))>>
          ELSE <<Name(Head(l))>>) \o ExpectedBuilds(Tail(l))

\* C8: nil entries of an AlignmentSetter's layout are skipped without any build,
\* cursor access or style push, every other entry is still processed in order,
\* and a setter whose layout is nil does nothing.
C8_NilSkipped ==
    BuiltAlign =>
        /\ last.layoutNil =>
              /\ BackendCalls(gui) = <<>> /\ ChildBuilds = <<>>
              /\ [gui EXCEPT !.calls = <<>>] = pre
        /\ ~last.layoutNil =>
              gui = Build(Align(last.alignType, FALSE, NoNils(last.layout)), pre)
        /\ ~gui.panicked => Names(ChildBuilds) = ExpectedBuilds(last.layout)

C8_Witness ==
    /\ BuiltAlign /\ ~gui.panicked /\ ~last.layoutNil
    /\ Len(last.layout) = 3 /\ last.layout[2] = NilWidget
    /\ Len(TopPlaces) = 2 /\ Len(ChildBuilds) = 4

FirstMeasured(l) == CHOOSE k \in 1..Len(l) : Measured(l[k]) /\ \A j \in 1..(k - 1) : ~Measured(l[j])

PanicEntries == SelectSeq(gui.calls, LAMBDA e : e.op = "panic")

UnknownType(a) == a.alignType \notin {AlignLeft, AlignCenter, AlignRight}

\* C9: a setter of an unknown alignment type panics at the first widget it has
\* to place: after that widget's dry run it neither sets the cursor for it nor
\* builds it for real, and no later entry of the layout is built. (A widget
\* whose own Build faults ends the build in its dry run already.)
C9_UnknownTypePanics ==
    (BuiltAlign /\ UnknownType(last) /\ \E k \in 1..Len(last.layout) : Measured(last.layout[k])) =>
        LET k == FirstMeasured(last.layout) IN
        /\ gui.panicked
        /\ Len(PanicEntries) = 1
        /\ gui.calls[Len(gui.calls)].op = "panic"
        /\ TopPlaces = <<>>
        /\ Names(ChildBuilds) = ExpectedBuilds(SubSeq(last.layout, 1, k - 1)) \o <<Name(last.layout[k])>>
        /\ last.layout[k] # FaultyStyle =>
              /\ PanicEntries[1].lvl = 1
              /\ Len(Own({"SetCursorPos"})) = 1
              /\ gui.cursor = Pt(Own({"GetCursorPos"})[1].x, Own({"GetCursorPos"})[1].y)
        /\ last.layout[k] = FaultyStyle =>
              /\ PanicEntries[1].lvl > 1
              /\ Own({"SetCursorPos", "PopStyleVarV"}) = <<>>

C9_Witness ==
    /\ BuiltAlign /\ UnknownType(last) /\ gui.panicked
    /\ Len(last.layout) = 3 /\ Measured(last.layout[1]) /\ Measured(last.layout[3])
    /\ Len(ChildBuilds) = 1 /\ PanicEntries[1].lvl = 1

(***************************************************************************)
(* What the last frame did to the text input.                              *)
(***************************************************************************)
\* the last frame built a text input, and its build ran to its end
InputBuilt == inframe.kind = "input" /\ ~inframe.panicked

MatchesOf(s) == IF s.type = "inputTextState" THEN s.autoCompleteCandidates ELSE <<>>

\* the matches the state held when the frame began
PreStored == MatchesOf(inframe.preState)

\* the value the text input holds once the user's edit is written to it
Typed == IF inframe.edit.changed THEN inframe.edit.text ELSE inframe.preValue

TopFive(f) == SubSeq(f, 1, Min(5, Len(f)))

\* the matches the state holds when the frame comes to draw the overlay
AtOverlay == IF inframe.found # <<>> THEN TopFive(inframe.found) ELSE PreStored

Strs(m) == [k \in 1..Len(m) |-> m[k].Str]

\* C4: the matches stored under an identifier number at most 5, are ordered by
\* descending score, and are the top-ranked prefix of the result of the last
\* change event that produced matches; a change event that produces matches
\* stores the top of the fuzzy search of the new value against the candidates.
C4_TopFiveStored ==
    /\ \A l \in Ids :
          LET m == MatchesOf(states[l])
              f == hist.found[l]
          IN /\ Len(m) <= 5
             /\ \A k \in 1..(Len(m) - 1) : m[k].Score >= m[k + 1].Score
             /\ m # <<>> =>
                   /\ m = TopFive(f)
                   /\ \A k \in 1..Len(m) : \A j \in (Len(m) + 1)..Len(f) : m[k].Score >= f[j].Score
    /\ (InputBuilt /\ inframe.found # <<>>) =>
          /\ inframe.edit.changed
          /\ inframe.found = Find(inframe.edit.text, inframe.widget.candidates)
          /\ hist.found[inframe.widget.label] = inframe.found
          /\ ~inframe.enter => MatchesOf(states[inframe.widget.label]) = TopFive(inframe.found)

C4_Witness ==
    /\ InputBuilt /\ ~inframe.enter
    /\ Len(inframe.found) = 8
    /\ Len(MatchesOf(states["in1"])) = 5
    /\ MatchesOf(states["in1"])[1].Score > MatchesOf(states["in1"])[5].Score
    /\ PreStored # <<>>

\* C5: enter pressed while matches are stored replaces the value by the first
\* stored match and empties the stored matches; enter pressed while none is
\* stored leaves the value and the state as they are. An overlay is drawn only
\* of matches that are stored, so none after the confirmation until a change
\* event produces matches.
C5_EnterConfirms ==
    InputBuilt =>
        LET l == inframe.widget.label IN
        /\ inframe.overlay = Strs(AtOverlay)
        /\ (inframe.enter /\ AtOverlay # <<>>) =>
              /\ values[l] = AtOverlay[1].Str
              /\ MatchesOf(states[l]) = <<>>
              /\ states[l].type = "inputTextState"
              /\ inframe.preState # Absent => states[l].obj = inframe.preState.obj
        /\ (inframe.enter /\ AtOverlay = <<>>) =>
              /\ values[l] = Typed
              /\ MatchesOf(states[l]) = <<>>
              /\ inframe.preState # Absent => states[l] = inframe.preState

C5_Witness ==
    /\ InputBuilt /\ inframe.enter /\ ~inframe.edit.changed
    /\ Len(PreStored) = 2
    /\ values["in1"] = PreStored[1].Str
    /\ values["in1"] # inframe.preValue
    /\ MatchesOf(states["in1"]) = <<>>

\* C6 as stated: a build in which the value changed and the fuzzy search yields
\* no match (the empty candidate list included) leaves no match stored and
\* draws no overlay.
C6_Original ==
    (InputBuilt /\ inframe.edit.changed /\ inframe.found = <<>>) =>
        /\ MatchesOf(states[inframe.widget.label]) = <<>>
        /\ inframe.overlay = <<>>

\* C7: the store holds one entry per identifier: it is taken on the first build
\* of the text input and not before, the same object is recovered by every
\* later build (never taken anew, replaced or removed), and a build with no
\* change event and no enter key leaves the stored matches as they were.
C7_OneEntry ==
    /\ \A l \in Ids :
          /\ hist.allocs[l] <= 1
          /\ hist.allocs[l] = 0 => states[l].type # "inputTextState"
          /\ hist.allocs[l] = 1 => hist.built[l]
          /\ hist.built[l] =>
                /\ states[l].type = "inputTextState"
                /\ states[l].obj = hist.first[l]
    /\ InputBuilt =>
          /\ inframe.preState = Absent <=> ~inframe.preBuilt
          /\ inframe.preState # Absent =>
                states[inframe.widget.label].obj = inframe.preState.obj
          /\ (~inframe.edit.changed /\ ~inframe.enter) =>
                MatchesOf(states[inframe.widget.label]) = PreStored

C7_Witness ==
    /\ InputBuilt /\ ~inframe.edit.changed /\ ~inframe.enter
    /\ inframe.preBuilt
    /\ Len(PreStored) = 5
    /\ hist.built["in1"] /\ hist.built["in2"]
    /\ states["in1"].obj # states["in2"].obj

\* C10: a build of the text input that recovers a state of another type fails
\* with the fatal assertion before anything else: the state found stays in the
\* store as it is, the value is not written, no match is stored and no overlay
\* is drawn.
C10_WrongTypeFatal ==
    (inframe.kind = "input" /\ inframe.preState.type = "otherState") =>
        LET l == inframe.widget.label IN
        /\ inframe.panicked /\ crashed
        /\ inframe.calls = <<"giu: (*InputTextWidget).Build: wrong state type recovered.">>
        /\ states[l] = inframe.preState
        /\ values[l] = inframe.preValue
        /\ inframe.overlay = <<>> /\ inframe.found = <<>>
        /\ hist.allocs[l] = 0

C10_Witness ==
    /\ inframe.kind = "input" /\ inframe.preState = OtherState
    /\ inframe.edit.changed /\ inframe.enter
    /\ inframe.panicked /\ crashed
    /\ states["in2"] = OtherState

(***************************************************************************)
(* The order of the calls of the last build.                               *)
(***************************************************************************)
\* what the widget built last did itself, in order: its own backend calls and
\* the Build invocations it made on the entries of its layout
OwnTrace ==
    SelectSeq(gui.calls, LAMBDA e : (e.lvl = 1 /\ e.op # "Build") \/ (e.lvl = 2 /\ e.op = "Build"))

Ops(es) == [i \in 1..Len(es) |-> es[i].op]

Times(n, op) == [i \in 1..n |-> op]

\* the pushes of a setter: colors, style variables, the font if resolved, the
\* disabled scope
ExpectedPushes(w) ==
    Times(Len(w.colors), "PushStyleColor")
    \o [i \in 1..Len(w.styles) |-> IF IsVec2(w.styles[i].id) THEN "PushStyleVarVec2" ELSE "PushStyleVarFloat"]
    \o (IF w.font \in extraFontMap THEN <<"PushFont">> ELSE <<>>)
    \o <<"BeginDisabled">>

\* the build of the sub-layout: one Build per entry that is not nil
ExpectedLayout(w) == Times(Len(NoNils(w.layout)), "Build")

\* C11 as stated: a StyleSetter built over a non-empty layout pushes the colors,
\* the style variables, the font if any and the disabled scope (with the
\* configured boolean), builds its layout, and unwinds in the exact reverse
\* order: disabled scope, font if pushed, style variables by count and, last,
\* colors by count.
C11_Original ==
    (BuiltStyle /\ ~NoLayout(last)) =>
        /\ Ops(OwnTrace) = ExpectedPushes(last) \o ExpectedLayout(last)
                           \o <<"EndDisabled">>
                           \o (IF last.font \in extraFontMap THEN <<"PopFont">> ELSE <<>>)
                           \o <<"PopStyleVarV", "PopStyleColorV">>
        /\ Own({"BeginDisabled"})[1].x = (IF last.disabled THEN 1 ELSE 0)
        /\ Own({"PopStyleVarV"})[1].x = Len(last.styles)
        /\ Own({"PopStyleColorV"})[1].x = Len(last.colors)

\* the widgets of the bypass list
Bypassed(w) == w.kind = "align" \/ w.kind \in BypassKinds

IsPrefix(a, b) == Len(a) <= Len(b) /\ a = SubSeq(b, 1, Len(a))

\* the Build invocations the setter built last made on bypassed entries
BypassBuilds == SelectSeq(ChildBuilds, LAMBDA e : e.id \in {Name(Sel), Name(Combo), Name(ComboCustom), "align"})

BypassedNames(l) ==
    LET b == SelectSeq(l, Bypassed) IN [i \in 1..Len(b) |-> Name(b[i])]

\* C12: whatever its alignment type, an AlignmentSetter invokes the Build of
\* every bypassed entry of its layout (nested setter, selectable, combo, custom
\* combo) exactly once, with no call of its own around it: no dry run, no
\* transparent style push, no cursor read or write.
C12_BypassBuiltOnce ==
    BuiltAlign =>
        /\ ~gui.panicked => Names(BypassBuilds) = BypassedNames(last.layout)
        /\ IsPrefix(Names(BypassBuilds), BypassedNames(last.layout))
        /\ \A i \in 1..Len(OwnTrace) :
              (OwnTrace[i].op = "Build" /\ OwnTrace[i] \in {BypassBuilds[k] : k \in 1..Len(BypassBuilds)}) =>
                  /\ i = 1 \/ OwnTrace[i - 1].op = "Build"
                  /\ i = Len(OwnTrace) \/ OwnTrace[i + 1].op \in {"Build", "GetCursorPos"}
        /\ (\A k \in 1..Len(last.layout) : ~Measured(last.layout[k])) =>
              /\ \A i \in 1..Len(OwnTrace) : OwnTrace[i].op = "Build"
              /\ Len(Own({"panic"})) = 0

C12_Witness ==
    /\ BuiltAlign /\ ~gui.panicked /\ last.alignType = AlignCenter
    /\ Len(last.layout) = 3 /\ Measured(last.layout[1]) /\ last.layout[2] = Sel /\ Measured(last.layout[3])
    /\ Len(BypassBuilds) = 1 /\ Len(ChildBuilds) = 5

(***************************************************************************)
(* What the backend observed of the last measurement.                      *)
(***************************************************************************)
Measuring == last.kind = "measure"

\* what GetWidgetWidth did itself, in order, and the Build it invoked
MeasureTrace ==
    SelectSeq(gui.calls, LAMBDA e : (e.lvl = 0 /\ e.op # "Build") \/ (e.lvl = 1 /\ e.op = "Build"))

\* the items drawn during the measurement
Drawn == SelectSeq(gui.calls, LAMBDA e : e.op = "Text" \/ e.op \in BypassKinds)

\* C13: GetWidgetWidth pushes one override of Alpha to 0, builds the widget
\* once, pops that one override, returns the cursor's x (read behind the
\* widget, after SameLine) minus the x recorded before minus the horizontal
\* item spacing, and sets the cursor back to the position recorded before: on
\* return the cursor and the stack of style variables are as at entry. (A
\* widget whose Build faults ends the measurement there: nothing is popped.)
C13_DryRun ==
    /\ (Measuring /\ gui.panicked) =>
          /\ IsPrefix(<<"GetCursorPos", "PushStyleVarFloat">>, Ops(MeasureTrace))
          /\ \A i \in 1..Len(MeasureTrace) :
                MeasureTrace[i].op \notin {"PopStyleVarV", "SameLine", "GetItemSpacing", "SetCursorPos"}
          /\ gui.calls[Len(gui.calls)].op = "panic"
          /\ Len(gui.vars) > Len(pre.vars)
    /\ (Measuring /\ ~gui.panicked) =>
        /\ Ops(MeasureTrace) = <<"GetCursorPos", "PushStyleVarFloat", "Build", "PopStyleVarV",
                                 "SameLine", "GetItemSpacing", "GetCursorPos", "SetCursorPos">>
        /\ MeasureTrace[1].x = pre.cursor.X /\ MeasureTrace[1].y = pre.cursor.Y
        /\ MeasureTrace[2].id = "Alpha" /\ MeasureTrace[2].x = 0
        /\ MeasureTrace[3].id = Name(last.widget)
        /\ MeasureTrace[4].x = 1
        /\ MeasureTrace[6].x = GetItemSpacing(pre)
        /\ MeasureTrace[7].x = gui.prevLine.X + GetItemSpacing(pre)
        /\ last.result = MeasureTrace[7].x - pre.cursor.X - GetItemSpacing(pre)
        /\ MeasureTrace[8].x = pre.cursor.X /\ MeasureTrace[8].y = pre.cursor.Y
        /\ gui.cursor = pre.cursor
        /\ gui.vars = pre.vars
        /\ \A i \in 1..Len(Drawn) : Drawn[i].y = 0

C13_Witness ==
    /\ Measuring /\ last.widget = L4 /\ last.result = 4
    /\ pre.cursor.X > Env.paddingW
    /\ Len(pre.vars) = 1
    /\ gui.cursor = pre.cursor /\ gui.prevLine # pre.prevLine

\* the pushes of style variables the setter built last made itself
VarPushes == Own({"PushStyleVarFloat", "PushStyleVarVec2"})

\* C14: a StyleSetter issues one push per style-variable override, of the kind
\* the slot's classification (IsVec2) gives, whatever kind of value was
\* supplied: a vector slot gets the vector supplied, or the scalar supplied on
\* both axes; a scalar slot gets the scalar supplied, or the x of the vector
\* supplied.
C14_PushKindBySlot ==
    (BuiltStyle /\ ~NoLayout(last)) =>
        /\ Len(VarPushes) = Len(last.styles)
        /\ \A i \in 1..Len(last.styles) :
              LET v == last.styles[i]
                  e == VarPushes[i]
              IN /\ e.id = v.id
                 /\ IsVec2(v.id) =>
                       /\ e.op = "PushStyleVarVec2"
                       /\ v.kind = "float" => (e.x = v.x /\ e.y = v.x)
                       /\ v.kind = "vec2" => (e.x = v.x /\ e.y = v.y)
                 /\ ~IsVec2(v.id) =>
                       /\ e.op = "PushStyleVarFloat"
                       /\ e.x = v.x

C14_Witness ==
    /\ BuiltStyle /\ ~NoLayout(last)
    /\ last.styles = <<Float("WindowPadding", 3), Vec2("Alpha", 1, 0)>>
    /\ VarPushes[1].op = "PushStyleVarVec2" /\ VarPushes[1].x = 3 /\ VarPushes[1].y = 3
    /\ VarPushes[2].op = "PushStyleVarFloat" /\ VarPushes[2].x = 1

\* what a setter of a valid type does for one entry of its layout
ExpectedItem(w) ==
    IF w.kind = "nil" THEN <<>>
    ELSE IF ~Measured(w) THEN <<"Build">>
    ELSE <<"GetCursorPos",
           "GetCursorPos", "PushStyleVarFloat", "Build", "PopStyleVarV",
           "SameLine", "GetItemSpacing", "GetCursorPos", "SetCursorPos",
           "GetAvailableRegion", "GetWindowPadding", "SetCursorPos", "Build">>

RECURSIVE ExpectedItems(_)
ExpectedItems(l) == IF l = <<>> THEN <<>> ELSE ExpectedItem(Head(l)) \o ExpectedItems(Tail(l))

\* the labels of the layout as they were drawn, and where they were placed
LabelDraws == SelectSeq(gui.calls, LAMBDA e : e.lvl = 2 /\ e.op = "Text")

LabelPlaces == SelectSeq(TopPlaces, LAMBDA p : p.item.kind = "label")

\* C15: an AlignmentSetter of a valid type builds every entry that is neither
\* nil nor bypassed exactly twice, first under the override of Alpha to 0 at
\* the cursor it found, then for real at the cursor it has set, and it is done
\* with both builds of an entry before it starts on the next one.
C15_BuiltTwiceInOrder ==
    (BuiltAlign /\ ~UnknownType(last) /\ ~last.layoutNil /\ ~gui.panicked) =>
        /\ Ops(OwnTrace) = ExpectedItems(last.layout)
        /\ Names(ChildBuilds) = ExpectedBuilds(last.layout)
        /\ Len(TopPlaces) = Len(SelectSeq(last.layout, Measured))
        /\ \A i \in 1..Len(TopPlaces) : TopPlaces[i].item = SelectSeq(last.layout, Measured)[i]
        /\ Len(LabelDraws) = 2 * Len(LabelPlaces)
        /\ \A i \in 1..Len(LabelPlaces) :
              LET p == LabelPlaces[i]
                  dry == LabelDraws[2 * i - 1]
                  real == LabelDraws[2 * i]
              IN /\ dry.id = p.item.text /\ dry.y = 0 /\ dry.x = p.P.X
                 /\ real.id = p.item.text /\ real.y = CurrentAlpha(pre) /\ real.x = p.at.X

C15_Witness ==
    /\ BuiltAlign /\ last.alignType = AlignRight /\ ~gui.panicked
    /\ last.layout = <<L4, L3, L4>>
    /\ Len(LabelDraws) = 6
    /\ LabelDraws[1].y = 0 /\ LabelDraws[2].y = 1 /\ LabelDraws[2].x > LabelDraws[1].x
    /\ LabelDraws[3].id = L3.text /\ LabelDraws[4].id = L3.text

\* the setter built last has an entry to measure
HasMeasured == ~last.layoutNil /\ \E k \in 1..Len(last.layout) : Measured(last.layout[k])

\* C16: a setter of an unknown alignment type raises no fault when its layout
\* is nil, empty or holds only nil and bypassed entries, which are built once
\* each; when it does raise the fault, every earlier entry has been built and
\* the dry run of the entry it was to place is over.
C16_LateDetection ==
    (BuiltAlign /\ UnknownType(last)) =>
        /\ ~HasMeasured =>
              /\ Own({"panic"}) = <<>>
              /\ \A i \in 1..Len(OwnTrace) : OwnTrace[i].op = "Build"
              /\ IsPrefix(Names(ChildBuilds), BypassedNames(last.layout))
              /\ ~gui.panicked => Names(ChildBuilds) = BypassedNames(last.layout)
              /\ gui.panicked => PanicEntries[1].lvl > 1
        /\ Own({"panic"}) # <<>> =>
              /\ HasMeasured
              /\ LET k == FirstMeasured(last.layout) IN
                 Ops(OwnTrace) = ExpectedItems(SubSeq(last.layout, 1, k - 1))
                                 \o SubSeq(ExpectedItem(last.layout[k]), 1, 11)
                                 \o <<"panic">>

C16_Witness ==
    /\ BuiltAlign /\ UnknownType(last) /\ ~gui.panicked
    /\ last.layout = <<ComboCustom, NilWidget>>
    /\ Names(ChildBuilds) = <<Name(ComboCustom)>>
    /\ gui.cursor # pre.cursor

====
